---- MODULE Spec2Model ----
(***************************************************************************)
(* Model of visa_interface.py: the generic instrument class (VISA session  *)
(* open / close) and the yokogawa7651 command translator built on it.      *)
(*                                                                         *)
(* The transport (pyvisa) is external.  Every call the driver makes to it  *)
(* is recorded in log, together with the outcome the transport chose for   *)
(* it (ok or a raised VisaIOError) and whether rm.close() had already been *)
(* called when the driver made the call.  log holds the transport calls of *)
(* the current (or last finished) driver call.                             *)
(*                                                                         *)
(* Exceptions are modelled by name: "KeyError" (dictionary lookup),        *)
(* "ValueError" (raise ValueError), "VisaIOError" (raised by the           *)
(* transport), "none" (no exception).                                      *)
(***************************************************************************)
EXTENDS Integers, Sequences, FiniteSets, TLC

VARIABLES closed, pc, op, args, log, result, printed, v_min

vars == <<closed, pc, op, args, log, result, printed, v_min>>

----------------------------------------------------------------------------
(* Bounds of the explored inputs *)

\* Sweep voltages range over -NegV..MaxV, steps over -NegStep..MaxStep
NegV == 1
MaxV == 2
NegStep == 1
MaxStep == 2
MinV == 0 - NegV
MinStep == 0 - NegStep

\* Limits range over -NegLimit..MaxILimit (mA) and -NegLimit..MaxVLimit (V)
NegLimit == 2
MaxILimit == 122
MaxVLimit == 32
MinILimit == 0 - NegLimit
MinVLimit == 0 - NegLimit

\* Longest write sequence of a terminating sweep (two setup writes, then one
\* write per value of MinV..MaxV), plus one: a sweep that never terminates is
\* followed up to this many writes.
MaxWrites == (MaxV - MinV) + 4

----------------------------------------------------------------------------
(* Inputs *)

\* An optional argument: <<>> is Python's None, <<x>> is the value x.
None == <<>>
Opt(S) == {None} \cup {<<x>> : x \in S}

VRangeInputs == {10, 100, 1000, 10000, 30000} \cup {1, 50}
IRangeInputs == {1, 10, 100} \cup {5, 1000}
ILimitInputs == MinILimit..MaxILimit
VLimitInputs == MinVLimit..MaxVLimit
SweepRangeInputs == {10000, 50}
SweepLimitInputs == {None, <<0>>, <<4>>, <<20>>}
Polarities == {"+", "-"}

----------------------------------------------------------------------------
(* Pure parts of the driver *)

\* str(x) of a Python int
str(x) == ToString(x)

\* Python truth value of an optional int argument: None and 0 are false.
Truthy(x) == x /= None /\ x[1] /= 0

voltage_ranges ==
    (10 :> "R2") @@ (100 :> "R3") @@ (1000 :> "R4") @@ (10000 :> "R5") @@ (30000 :> "R6")

current_ranges == (1 :> "R4") @@ (10 :> "R5") @@ (100 :> "R6")

\* self.instr.write(cmd): one transport call; ok is the transport's outcome.
\* The driver checks nothing before the call (no open/closed test).
write(cmd, ok) ==
    [log |-> << [call |-> "write", cmd |-> cmd, ok |-> ok] >>,
     exc |-> IF ok THEN "none" ELSE "VisaIOError"]

Raise(e) == [log |-> <<>>, exc |-> e]

\* a ; b  -- b runs only when a raised nothing
Then(a, b) == IF a.exc /= "none" THEN a ELSE [log |-> a.log \o b.log, exc |-> b.exc]

VoltageLimitInvalid(vmax) == vmax > 30 \/ vmax < 0

\* The lower bound taken as exclusive
CurrentLimitInvalidExclusive(imax) == imax > 120 \/ imax <= 5

CurrentLimitInvalid(imax) == imax > 120 \/ imax < 5

set_voltage_limit(vmax, ok) ==
    IF VoltageLimitInvalid(vmax) THEN Raise("ValueError")
    ELSE write("LV" \o str(vmax), ok)

set_current_limit(imax, ok) ==
    IF CurrentLimitInvalid(imax) THEN Raise("ValueError")
    ELSE write("LA" \o str(imax), ok)

\* try: ... except Exception as e: print(str(e))
\* Whatever the body raised is printed; the method returns normally.
TryPrint(body) == [log |-> body.log, exc |-> "none", printed |-> body.exc]

ChainLimit(i_limit) == Truthy(i_limit)

set_voltage_function(v_range, i_limit, oks) ==
    TryPrint(
        IF v_range \notin DOMAIN voltage_ranges THEN Raise("KeyError")
        ELSE Then(write("F1" \o voltage_ranges[v_range] \o "E", oks[1]),
                  IF ChainLimit(i_limit) THEN set_current_limit(i_limit[1], oks[2])
                  ELSE Raise("none")))

set_current_function(i_range, v_limit, oks) ==
    TryPrint(
        IF i_range \notin DOMAIN current_ranges THEN Raise("KeyError")
        ELSE Then(write("F5" \o current_ranges[i_range] \o "E", oks[1]),
                  IF ChainLimit(v_limit) THEN set_voltage_limit(v_limit[1], oks[2])
                  ELSE Raise("none")))

set_output_val(value, polarity, ok) == write("S" \o polarity \o str(value) \o "E", ok)

set_output_state(on, ok) == write("O" \o str(IF on THEN 1 ELSE 0) \o "E", ok)

\* The ordering test off by one
SweepArgsInvalidLoose(vmin, vmax) == vmin > vmax + 1

\* if v_min > v_max: raise ValueError
SweepArgsInvalid(vmin, vmax) == vmin > vmax

\* The loop stopping one value short of v_max
SweepCondStrict(vmin, vmax) == vmin < vmax

\* while v_min <= v_max
SweepCond(vmin, vmax) == vmin <= vmax

\* A step that is forced forward when it is not positive
AdvanceGuarded(vmin, step) == vmin + (IF step > 0 THEN step ELSE 1)

\* v_min += step
Advance(vmin, step) == vmin + step

----------------------------------------------------------------------------
(* State machine *)

Oks == [1..2 -> BOOLEAN]

\* One transport call as recorded in log
Stamp(l) == [i \in 1..Len(l) |-> [call |-> l[i].call, cmd |-> l[i].cmd,
                                   ok |-> l[i].ok, closed |-> closed]]

\* A driver call that runs to completion in one step: r is what its body did.
Finish(name, a, r, pr) ==
    /\ pc = "idle"
    /\ op' = name
    /\ args' = a
    /\ log' = Stamp(r.log)
    /\ result' = r.exc
    /\ printed' = pr
    /\ pc' = "done"
    /\ UNCHANGED <<closed, v_min>>

\* instrument.__init__ : a new object with a freshly opened session
Init ==
    /\ closed = FALSE
    /\ pc = "idle"
    /\ op = "__init__"
    /\ args = <<>>
    /\ log = <<>>
    /\ result = "none"
    /\ printed = "none"
    /\ v_min = 0

Construct ==
    /\ pc = "idle"
    /\ closed
    /\ closed' = FALSE
    /\ UNCHANGED <<pc, op, args, log, result, printed, v_min>>

\* The finished call hands control back to the caller, which has seen what the
\* call returned or raised; the driver keeps nothing of it (no cached state).
Return ==
    /\ pc = "done"
    /\ pc' = "idle"
    /\ op' = "__init__"
    /\ args' = <<>>
    /\ log' = <<>>
    /\ result' = "none"
    /\ printed' = "none"
    /\ v_min' = 0
    /\ UNCHANGED closed

\* instrument.close_instrument : self.rm.close(), no check of the state
CloseInstrument ==
    /\ pc = "idle"
    /\ \E ok \in BOOLEAN :
        /\ op' = "close_instrument"
        /\ args' = <<>>
        /\ log' = Stamp(<< [call |-> "close", cmd |-> "", ok |-> ok] >>)
        /\ result' = IF ok THEN "none" ELSE "VisaIOError"
        /\ closed' = (closed \/ ok)
    /\ printed' = "none"
    /\ pc' = "done"
    /\ UNCHANGED v_min

InitializeInstrument ==
    \E ok \in BOOLEAN :
        Finish("initialize_instrument", <<>>, write("RC", ok), "none")

SetVoltageFunction ==
    \E r \in VRangeInputs, l \in Opt(ILimitInputs), oks \in Oks :
        LET res == set_voltage_function(r, l, oks)
        IN Finish("set_voltage_function", <<r, l>>, res, res.printed)

SetCurrentFunction ==
    \E r \in IRangeInputs, l \in Opt(VLimitInputs), oks \in Oks :
        LET res == set_current_function(r, l, oks)
        IN Finish("set_current_function", <<r, l>>, res, res.printed)

SetVoltageLimit ==
    \E v \in VLimitInputs, ok \in BOOLEAN :
        Finish("set_voltage_limit", <<v>>, set_voltage_limit(v, ok), "none")

SetCurrentLimit ==
    \E i \in ILimitInputs, ok \in BOOLEAN :
        Finish("set_current_limit", <<i>>, set_current_limit(i, ok), "none")

SetOutputVal ==
    \E v \in (MinV - 1)..(MaxV + 1), p \in Polarities, ok \in BOOLEAN :
        Finish("set_output_val", <<v, p>>, set_output_val(v, p, ok), "none")

SetOutputState ==
    \E on \in BOOLEAN, ok \in BOOLEAN :
        Finish("set_output_state", <<on>>, set_output_state(on, ok), "none")

\* dc_voltage_sweep up to the loop: the precondition and set_voltage_function
DcVoltageSweep ==
    /\ pc = "idle"
    /\ \E lo \in MinV..MaxV, hi \in MinV..MaxV, st \in MinStep..MaxStep,
          r \in SweepRangeInputs, l \in SweepLimitInputs, p \in Polarities,
          oks \in Oks :
        /\ op' = "dc_voltage_sweep"
        /\ args' = [v_min |-> lo, v_max |-> hi, step |-> st, v_range |-> r,
                    i_limit |-> l, polarity |-> p]
        /\ v_min' = lo
        /\ IF SweepArgsInvalid(lo, hi)
           THEN /\ log' = <<>>
                /\ result' = "ValueError"
                /\ printed' = "none"
                /\ pc' = "done"
           ELSE LET res == set_voltage_function(r, l, oks)
                IN /\ log' = Stamp(res.log)
                   /\ printed' = res.printed
                   /\ result' = "running"
                   /\ pc' = "loop"
    /\ UNCHANGED closed

\* One iteration: set_output_val(v_min, polarity); v_min += step; sleep(delay)
SweepIter ==
    /\ pc = "loop"
    /\ SweepCond(v_min, args.v_max)
    /\ Len(log) < MaxWrites
    /\ \E ok \in BOOLEAN :
        LET w == set_output_val(v_min, args.polarity, ok)
        IN /\ log' = log \o Stamp(w.log)
           /\ IF w.exc /= "none"
              THEN /\ result' = w.exc
                   /\ pc' = "done"
                   /\ UNCHANGED v_min
              ELSE /\ v_min' = Advance(v_min, args.step)
                   /\ UNCHANGED <<result, pc>>
    /\ UNCHANGED <<closed, op, args, printed>>

\* The loop condition is false: the method returns
SweepExit ==
    /\ pc = "loop"
    /\ ~SweepCond(v_min, args.v_max)
    /\ pc' = "done"
    /\ result' = "none"
    /\ UNCHANGED <<closed, op, args, log, printed, v_min>>

Next ==
    \/ Construct
    \/ Return
    \/ CloseInstrument
    \/ InitializeInstrument
    \/ SetVoltageFunction
    \/ SetCurrentFunction
    \/ SetVoltageLimit
    \/ SetCurrentLimit
    \/ SetOutputVal
    \/ SetOutputState
    \/ DcVoltageSweep
    \/ SweepIter
    \/ SweepExit

Spec == Init /\ [][Next]_vars

\* The interpreter runs a started sweep on: each loop step is taken when it can be.
LiveSpec == Spec /\ WF_vars(SweepIter) /\ WF_vars(SweepExit)

----------------------------------------------------------------------------
(* Vocabulary of the properties *)

Done == pc = "done"

Cmds(l) == [i \in 1..Len(l) |-> l[i].cmd]

AllOk == \A i \in 1..Len(log) : log[i].ok

IsPrefix(a, b) == Len(a) <= Len(b) /\ \A i \in 1..Len(a) : a[i] = b[i]

\* The documented tables and domains, written out independently of the driver
DocVoltageRanges == {10, 100, 1000, 10000, 30000}

DocCurrentRanges == {1, 10, 100}

DocVoltageCode(r) ==
    CASE r = 10 -> "R2" [] r = 100 -> "R3" [] r = 1000 -> "R4"
      [] r = 10000 -> "R5" [] r = 30000 -> "R6"

DocCurrentCode(r) == CASE r = 1 -> "R4" [] r = 10 -> "R5" [] r = 100 -> "R6"

DocVoltageLimitOk(v) == 0 < v /\ v <= 30

DocCurrentLimitOk(i) == 5 <= i /\ i <= 120

\* Some validation of the current call fails, by the documented domains
ValidationFails ==
    CASE op = "set_voltage_function" ->
            \/ args[1] \notin DocVoltageRanges
            \/ args[2] /= None /\ ~DocCurrentLimitOk(args[2][1])
      [] op = "set_current_function" ->
            \/ args[1] \notin DocCurrentRanges
            \/ args[2] /= None /\ ~DocVoltageLimitOk(args[2][1])
      [] op = "set_voltage_limit" -> ~DocVoltageLimitOk(args[1])
      [] op = "set_current_limit" -> ~DocCurrentLimitOk(args[1])
      [] op = "dc_voltage_sweep" ->
            \/ args.v_min > args.v_max
            \/ args.v_range \notin DocVoltageRanges
            \/ args.i_limit /= None /\ ~DocCurrentLimitOk(args.i_limit[1])
      [] OTHER -> FALSE

\* C1: a call in which any validation fails issues no transport write at all.
C1_FailFast == ValidationFails => log = <<>>

\* C2: an unknown range makes set_voltage_function / set_current_function
\* raise to the caller, with no transport write.
C2_UnknownRangeRaises ==
    /\ (Done /\ op = "set_voltage_function" /\ args[1] \notin DocVoltageRanges)
          => (result /= "none" /\ log = <<>>)
    /\ (Done /\ op = "set_current_function" /\ args[1] \notin DocCurrentRanges)
          => (result /= "none" /\ log = <<>>)

\* C3: set_voltage_limit(v_max) writes LV<v_max> exactly once when
\* 0 < v_max <= 30, and raises with no write for every other v_max.
C3_VoltageLimit ==
    (Done /\ op = "set_voltage_limit") =>
        IF DocVoltageLimitOk(args[1])
        THEN Cmds(log) = << "LV" \o ToString(args[1]) >>
        ELSE result = "ValueError" /\ log = <<>>

\* C4: no transport call (write or close) is issued on a closed session.
C4_NoIoAfterClose == \A i \in 1..Len(log) : ~log[i].closed

\* C5: a failed transport write reaches the caller and is the last write of
\* the composite operation in progress.
C5_WriteFailurePropagates ==
    (op \in {"set_voltage_function", "set_current_function", "dc_voltage_sweep"}) =>
        \A i \in 1..Len(log) :
            ~log[i].ok => /\ i = Len(log)
                          /\ Done
                          /\ result = "VisaIOError"

SweepArgsValid ==
    /\ op = "dc_voltage_sweep"
    /\ args.v_min <= args.v_max
    /\ args.step > 0
    /\ args.v_range \in DocVoltageRanges
    /\ args.i_limit /= None
    /\ DocCurrentLimitOk(args.i_limit[1])

SweepExpected ==
    << "F1" \o DocVoltageCode(args.v_range) \o "E",
       "LA" \o ToString(args.i_limit[1]) >>
    \o [k \in 1..(((args.v_max - args.v_min) \div args.step) + 1) |->
           "S" \o args.polarity \o ToString(args.v_min + (k - 1) * args.step) \o "E"]

\* C6: a sweep with valid arguments (v_min <= v_max, step > 0) whose writes all
\* succeed emits F1<code>E, LA<limit>, then S<polarity><v>E for
\* v = v_min, v_min+step, ... <= v_max, in that order and nothing else.
C6_SweepSequence ==
    (SweepArgsValid /\ AllOk) =>
        /\ IsPrefix(Cmds(log), SweepExpected)
        /\ Done => (Cmds(log) = SweepExpected /\ result = "none")

C6_Witness ==
    /\ SweepArgsValid /\ AllOk /\ Done
    /\ args.v_min = 0 /\ args.v_max = 2 /\ args.step = 1
    /\ Len(log) = 5

\* What is seen of an invocation of a limit setter with x: its write, or the
\* ValueError it raises (propagated or printed).
LimitSetterInvoked(prefix, x) ==
    \/ Len(log) = 2 /\ log[2].cmd = prefix \o ToString(x)
    \/ "ValueError" \in {result, printed}

\* C7: with a valid range the first write is F1<code>E (F5<code>E); it is the
\* only write when no limit is supplied, and the limit setter is invoked
\* whenever a limit is supplied, 0 included.
C7_FunctionCommand ==
    /\ (Done /\ AllOk /\ op = "set_voltage_function" /\ args[1] \in DocVoltageRanges) =>
          /\ Len(log) >= 1
          /\ log[1].cmd = "F1" \o DocVoltageCode(args[1]) \o "E"
          /\ args[2] = None => Len(log) = 1
          /\ args[2] /= None => LimitSetterInvoked("LA", args[2][1])
    /\ (Done /\ AllOk /\ op = "set_current_function" /\ args[1] \in DocCurrentRanges) =>
          /\ Len(log) >= 1
          /\ log[1].cmd = "F5" \o DocCurrentCode(args[1]) \o "E"
          /\ args[2] = None => Len(log) = 1
          /\ args[2] /= None => LimitSetterInvoked("LV", args[2][1])

\* C8: set_current_limit(i_max) writes LA<i_max> exactly once when
\* 5 <= i_max <= 120, and raises with no write for every other i_max.
C8_CurrentLimit ==
    (Done /\ op = "set_current_limit") =>
        IF DocCurrentLimitOk(args[1])
        THEN /\ Cmds(log) = << "LA" \o ToString(args[1]) >>
             /\ log[1].call = "write"
             /\ result = (IF log[1].ok THEN "none" ELSE "VisaIOError")
        ELSE result = "ValueError" /\ log = <<>>

C8_Witness ==
    /\ Done /\ op = "set_current_limit" /\ args[1] = 5
    /\ Len(log) = 1 /\ log[1].cmd = "LA5" /\ log[1].ok

\* C9: a sweep called with v_min > v_max raises before any transmission.
C9_SweepPrecondition ==
    (op = "dc_voltage_sweep" /\ args.v_min > args.v_max) =>
        (Done /\ result = "ValueError" /\ log = <<>>)

C9_Witness ==
    /\ Done /\ op = "dc_voltage_sweep" /\ args.v_min = args.v_max + 1
    /\ args.v_range \in DocVoltageRanges /\ args.i_limit = <<20>>
    /\ result = "ValueError"

\* C10: a sweep with v_min <= v_max returns only if step > 0, and with
\* step > 0 it always comes to an end (returning unless a write failed); with
\* step <= 0 the loop condition stays true after every iteration.
C10_SweepTermination ==
    /\ []((op = "dc_voltage_sweep" /\ Done /\ result = "none") => args.step > 0)
    /\ []((op = "dc_voltage_sweep" /\ pc = "loop" /\ args.step <= 0)
             => v_min <= args.v_max)
    /\ (op = "dc_voltage_sweep" /\ pc = "loop" /\ args.step > 0)
          ~> (Done /\ (result = "none" \/ ~AllOk))

C10_Witness ==
    /\ op = "dc_voltage_sweep" /\ pc = "loop" /\ args.step < 0
    /\ AllOk /\ Len(log) = MaxWrites
    /\ v_min < args.v_min

====
